---- MODULE Spec2Model ----
(***************************************************************************)
(* Model of src/octree.rs: the Folder tuple composites and the region      *)
(* discretize / expand_loc / expand algorithms of LeveledRegion and        *)
(* CenteredLeveledRegion.                                                  *)
(*                                                                         *)
(* Scalars (the generic S: Float, f32 in the documented use) are modelled  *)
(* as binary floating-point values on a dyadic grid: a finite value is an  *)
(* integer count of units of 2^-FracBits, every sum is rounded to MantBits *)
(* significant bits (round half to even), and +inf, -inf and NaN exist.    *)
(* The level is an i32.                                                    *)
(***************************************************************************)
EXTENDS Integers, Sequences, FiniteSets, TLC

\* The region: its level and center; the point the caller works on; the last
\* call and its result; the expansions made so far, and whether all of them
\* were steps of the resize-and-retry loop on `point`; the region as it was
\* constructed; whether a call has panicked.
VARIABLES level, center, point, res, nexp, proto, start, panicked
\* The fold: the member folders of the composite; the sums of the subtrees
\* folded so far, left to right; the leaves gathered; the number of sums the
\* last fold was given.
VARIABLES folders, stack, leaves, folded

vars == <<level, center, point, res, nexp, proto, start, panicked,
          folders, stack, leaves, folded>>

regionVars == <<level, center, point, res, nexp, proto, start, panicked>>
foldVars == <<folders, stack, leaves, folded>>

(***************************************************************************)
(* Bounds of the model.                                                    *)
(***************************************************************************)
\* The grid: one unit is 2^-FracBits; the smallest initial level is -FracBits.
FracBits == 1
\* Point coordinates lie within MaxCoord units of the base they are drawn at.
MaxCoord == 3
\* Expansions explored in one behaviour.
MaxExpands == 4
\* Leaves gathered in one fold behaviour.
MaxLeaves == 8

(***************************************************************************)
(* Program constants.                                                      *)
(***************************************************************************)
\* Significant bits of an f32, the scalar of the documented use.
MantBits == 24
\* The level field is an i32.
I32Max == 2147483647
I32Min == (0 - I32Max) - 1
\* Largest binary exponent of an f64: 2.0.powi(n) is +inf above it.
F64MaxExp == 1023
\* 2.0.powi(n) is 0 below the smallest subnormal exponent of an f64.
F64MinExp == -1074
\* fold is given at most 8 sums (the children of one octree node).
FoldMax == 8

(***************************************************************************)
(* The scalar type S.                                                      *)
(***************************************************************************)
Fin(n) == <<"fin", n>>
PInf == <<"inf", 1>>
NInf == <<"inf", -1>>
NaN == <<"nan", 0>>

IsFin(a) == a[1] = "fin"
IsNaN(a) == a[1] = "nan"

\* Round an integer count of units to MantBits significant bits, ties to even.
Round(n) ==
  LET a == IF n < 0 THEN 0 - n ELSE n IN
  IF a < 2^MantBits THEN n
  ELSE LET e == CHOOSE k \in MantBits..29 : 2^k <= a /\ a < 2^(k+1)
           ulp == 2^(e - MantBits + 1)
           q == a \div ulp
           rem == a % ulp
           up == 2 * rem > ulp \/ (2 * rem = ulp /\ q % 2 = 1)
           m == (IF up THEN q + 1 ELSE q) * ulp
       IN IF n < 0 THEN 0 - m ELSE m

Neg(a) == IF IsNaN(a) THEN NaN ELSE <<a[1], 0 - a[2]>>

Add(a, b) ==
  CASE IsNaN(a) \/ IsNaN(b) -> NaN
    [] IsFin(a) /\ IsFin(b) -> Fin(Round(a[2] + b[2]))
    [] IsFin(a) -> b
    [] IsFin(b) -> a
    [] OTHER -> IF a = b THEN a ELSE NaN

Sub(a, b) == Add(a, Neg(b))

Abs(a) ==
  CASE IsNaN(a) -> NaN
    [] IsFin(a) -> Fin(IF a[2] < 0 THEN 0 - a[2] ELSE a[2])
    [] OTHER -> PInf

\* a < b; false when either is NaN.
Lt(a, b) ==
  CASE IsNaN(a) \/ IsNaN(b) -> FALSE
    [] IsFin(a) /\ IsFin(b) -> a[2] < b[2]
    [] IsFin(a) -> b = PInf
    [] IsFin(b) -> a = NInf
    [] OTHER -> a = NInf /\ b = PInf

Gt(a, b) == Lt(b, a)

\* a >= b; false when either is NaN.
Ge(a, b) == ~IsNaN(a) /\ ~IsNaN(b) /\ ~Lt(a, b)

\* 2^n as a scalar: exact on the grid, +inf above the exponent range and 0
\* below it.
Pow2(n) ==
  CASE n > F64MaxExp -> PInf
    [] n < F64MinExp -> Fin(0)
    [] n >= 0 - FracBits /\ n <= F64MaxExp -> Fin(2^(n + FracBits))

Axes == 1..3

None == [some |-> FALSE]
Some(v) == [some |-> TRUE, val |-> v]
Panic == [some |-> FALSE, panic |-> TRUE]

\* self.0 + 1 on an i32: at i32::MAX a debug build panics and a release build
\* wraps; "ovf" is the outcome of the build.
BuildOutcomes(l) == IF l = I32Max THEN {"panic", "wrap"} ELSE {"none"}
Inc(l, ovf) == IF l = I32Max THEN I32Min ELSE l + 1

(***************************************************************************)
(* LeveledRegion::discretize                                               *)
(***************************************************************************)
\* LeveledDiscretize with the rejection test off by one: a coordinate equal
\* to the bound is rejected too.
LeveledDiscretize_RejectsAtBound(l, p, ovf) ==
  LET bound == Pow2(l) IN
  IF \E i \in Axes : Ge(Abs(p[i]), bound) THEN None
  ELSE IF ovf = "panic" THEN Panic
  ELSE Some([i \in Axes |-> [num |-> Add(p[i], bound), den |-> Pow2(Inc(l, ovf))]])

Normalize(n, bound, l1) == [num |-> Add(n, bound), den |-> Pow2(l1)]

LeveledDiscretize(l, p, ovf) ==
  LET bound == Pow2(l) IN
  IF \E i \in Axes : Gt(Abs(p[i]), bound) THEN None
  ELSE IF ovf = "panic" THEN Panic
  ELSE Some([i \in Axes |-> Normalize(p[i], bound, Inc(l, ovf))])

\* One axis of new_octant: 1 below the region, 0 at or above it, -1 within.
NewOctant(l, c, p, i) ==
  LET radius == Pow2(l)
      lower_bound == Sub(c[i], radius)
      upper_bound == Add(c[i], radius)
  IN IF Lt(p[i], lower_bound) THEN 1
     ELSE IF Ge(p[i], upper_bound) THEN 0
     ELSE -1

\* PreferredOctant with the tie going the other way: a point equal to the
\* center resolves as one below it.
PreferredOctant_TieBelow(l, c, p, i) ==
  LET new_octant == IF Lt(p[i], Sub(c[i], Pow2(l))) THEN 1
                    ELSE IF Ge(p[i], Add(c[i], Pow2(l))) THEN 0
                    ELSE -1
  IN IF new_octant = -1
     THEN (IF Gt(p[i], c[i]) THEN 0 ELSE 1)
     ELSE new_octant

\* One axis of preferred_octant: an axis within the region goes by the
\* comparison with the center.
PreferredOctant(l, c, p, i) ==
  IF NewOctant(l, c, p, i) = -1
  THEN (IF Lt(p[i], c[i]) THEN 1 ELSE 0)
  ELSE NewOctant(l, c, p, i)

ExpandLoc(l, c, p) ==
  IF \A i \in Axes : NewOctant(l, c, p, i) = -1 THEN None
  ELSE Some((PreferredOctant(l, c, p, 3) * 4 + PreferredOctant(l, c, p, 2) * 2
             + PreferredOctant(l, c, p, 1)) % 256)

CenteredDiscretize(l, c, p, ovf) ==
  LeveledDiscretize(l, [i \in Axes |-> Sub(p[i], c[i])], ovf)

\* octant & (1 << i) != 0, the axes numbered from 1.
BitSet(octant, i) == (octant \div (2^(i - 1))) % 2 = 1

CenterAdjust(l, octant, i) ==
  IF BitSet(octant, i) THEN Neg(Pow2(l)) ELSE Pow2(l)

ExpandCenter(l, c, octant) ==
  [i \in Axes |-> Add(c[i], CenterAdjust(l, octant, i))]

(***************************************************************************)
(* Inputs.                                                                 *)
(***************************************************************************)
Vec(x, y, z) == <<Fin(x), Fin(y), Fin(z)>>
Representable(n) == Round(n) = n

\* A base far from the origin: the spacing of the scalars there is 2 units.
FarBase == 2^MantBits

Coords == (0 - MaxCoord)..MaxCoord
FarCoords == {n \in (FarBase - MaxCoord - 1)..(FarBase + MaxCoord + 1) : Representable(n)}

NearCenters == {Vec(1, -1, 0)}
FarCenters == {Vec(FarBase + 2, 0, 0)}
InitLevels == {0 - FracBits, 1 - FracBits}

\* The octants handed to expand: 0..7, and u8 values with higher bits set.
OctantInputs == 0..7 \cup {13}

InitFoldIdle ==
  /\ folders = <<"count", "keys">>
  /\ stack = <<>>
  /\ leaves = 0
  /\ folded = 0

InitRegionWith(l, c, p) ==
  /\ level = l
  /\ center = c
  /\ point = p
  /\ res = [op |-> "new"]
  /\ nexp = 0
  /\ proto = TRUE
  /\ start = [level |-> l, center |-> c]
  /\ panicked = FALSE

InitNear ==
  \E l \in InitLevels, c \in NearCenters, x \in Coords, y \in Coords, z \in Coords :
     InitRegionWith(l, c, Vec(x, y, z))

InitFar ==
  \E l \in InitLevels, c \in FarCenters, x \in FarCoords, y \in {-1, 0}, z \in {0, 1} :
     InitRegionWith(l, c, Vec(x, y, z))

Init == (InitNear \/ InitFar) /\ InitFoldIdle

(***************************************************************************)
(* Operations on the region.                                               *)
(***************************************************************************)
Call(op, out) ==
  /\ res' = [op |-> op, out |-> out]
  /\ panicked' = ("panic" \in DOMAIN out)
  /\ UNCHANGED <<level, center, point, nexp, proto, start>>

\* region.leveled_region.discretize(point)
DoLeveledDiscretize ==
  /\ ~panicked
  /\ \E ovf \in BuildOutcomes(level) :
        Call("leveled_discretize", LeveledDiscretize(level, point, ovf))
  /\ UNCHANGED foldVars

\* region.discretize(point)
DoDiscretize ==
  /\ ~panicked
  /\ \E ovf \in BuildOutcomes(level) :
        Call("discretize", CenteredDiscretize(level, center, point, ovf))
  /\ UNCHANGED foldVars

\* region.expand_loc(point)
DoExpandLoc ==
  /\ ~panicked
  /\ Call("expand_loc", ExpandLoc(level, center, point))
  /\ UNCHANGED foldVars

\* region.expand(octant). `loc` is expand_loc(point) and `rejected` whether
\* discretize(point) is None, both in the state before the call: the call is
\* a step of the resize-and-retry loop on `point` when the point is rejected
\* and the octant is the one expand_loc names.
Expand(octant, loc, rejected) ==
  /\ nexp < MaxExpands
  /\ proto \/ loc = Some(octant)
  /\ \E ovf \in BuildOutcomes(level) :
        /\ center' = ExpandCenter(level, center, octant)
        /\ level' = IF ovf = "panic" THEN level ELSE Inc(level, ovf)
        /\ panicked' = (ovf = "panic")
  /\ res' = [op |-> "expand", octant |-> octant,
             old_level |-> level, old_center |-> center]
  /\ nexp' = nexp + 1
  /\ proto' = (proto /\ rejected /\ loc = Some(octant))
  /\ UNCHANGED <<point, start, foldVars>>

DoExpand ==
  /\ ~panicked
  /\ \E loc \in {ExpandLoc(level, center, point)},
        rejected \in {~CenteredDiscretize(level, center, point, "none").some},
        octant \in OctantInputs :
        Expand(octant, loc, rejected)

Next ==
  \/ DoLeveledDiscretize
  \/ DoDiscretize
  \/ DoExpandLoc
  \/ DoExpand

Spec == Init /\ [][Next]_vars

\* The same operations from regions whose level is at the top of the i32 range.
InitI32 ==
  /\ \E l \in {I32Max - 1, I32Max}, c \in NearCenters,
        x \in {-1, 0, 1}, y \in {-1, 0, 1}, z \in {-1, 0, 1} :
        InitRegionWith(l, c, Vec(x, y, z))
  /\ InitFoldIdle

SpecI32 == InitI32 /\ [][Next]_vars

(***************************************************************************)
(* Folders.                                                                *)
(***************************************************************************)
RECURSIVE SumOf(_)
SumOf(it) == IF it = <<>> THEN 0 ELSE Head(it) + SumOf(Tail(it))

RECURSIVE Concat(_)
Concat(it) == IF it = <<>> THEN <<>> ELSE Head(it) \o Concat(Tail(it))

\* The member folders: "count" counts the leaves, "keys" collects the leaf
\* keys in order, "null" is NullFolder.
MemberGather(f, morton, item) ==
  CASE f = "count" -> 1
    [] f = "keys" -> <<morton>>
    [] f = "null" -> "unit"

MemberFold(f, it) ==
  CASE f = "count" -> SumOf(it)
    [] f = "keys" -> Concat(it)
    [] f = "null" -> "unit"

\* gather of the tuple folder fs.
TupleGather(fs, morton, item) ==
  [k \in 1..Len(fs) |-> MemberGather(fs[k], morton, item)]

\* it.fold(default, |accs, items| { acc.push(item) for each member; accs })
RECURSIVE PushAll(_, _, _)
PushAll(accs, it, n) ==
  IF it = <<>> THEN accs
  ELSE PushAll([k \in 1..n |-> Append(accs[k], Head(it)[k])], Tail(it), n)

\* TupleFold with each accumulator filled from the front: the members are
\* folded over their children's sums in reverse order.
RECURSIVE PushFront(_, _, _)
PushFront(accs, it, n) ==
  IF it = <<>> THEN accs
  ELSE PushFront([k \in 1..n |-> <<Head(it)[k]>> \o accs[k]], Tail(it), n)

TupleFold_Reversed(fs, it) ==
  LET n == Len(fs)
      sm == PushFront([k \in 1..n |-> <<>>], it, n)
  IN [k \in 1..n |-> MemberFold(fs[k], sm[k])]

\* fold of the tuple folder fs.
TupleFold(fs, it) ==
  LET n == Len(fs)
      sm == PushAll([k \in 1..n |-> <<>>], it, n)
  IN [k \in 1..n |-> MemberFold(fs[k], sm[k])]

FolderTuples == {<<"count", "keys">>, <<"keys", "null", "count">>}
Items == {"a", "b"}

InitFold ==
  /\ InitRegionWith(0, Vec(0, 0, 0), Vec(0, 0, 0))
  /\ folders \in FolderTuples
  /\ stack = <<>>
  /\ leaves = 0
  /\ folded = 0

\* A leaf is gathered: by the composite, and by each member folder run alone.
\* The leaves carry ascending keys.
Gather(item) ==
  /\ leaves < MaxLeaves
  /\ leaves' = leaves + 1
  /\ stack' = Append(stack,
        [comp |-> TupleGather(folders, leaves + 1, item),
         alone |-> [k \in 1..Len(folders) |->
                      MemberGather(folders[k], leaves + 1, item)]])
  /\ UNCHANGED <<folders, folded, regionVars>>

\* The last n subtrees become the children of one node: their sums are
\* folded by the composite, and by each member folder run alone.
Fold(n) ==
  /\ n <= Len(stack)
  /\ LET rest == Len(stack) - n
         kids == [i \in 1..n |-> stack[rest + i]]
     IN stack' = Append(SubSeq(stack, 1, rest),
          [comp |-> TupleFold(folders, [i \in 1..n |-> kids[i].comp]),
           alone |-> [k \in 1..Len(folders) |->
                        MemberFold(folders[k], [i \in 1..n |-> kids[i].alone[k]])]])
  /\ folded' = n
  /\ UNCHANGED <<folders, leaves, regionVars>>

NextFold ==
  \/ \E item \in Items : Gather(item)
  \/ \E n \in 1..FoldMax : Fold(n)

SpecFold == InitFold /\ [][NextFold]_vars

(***************************************************************************)
(* Properties.                                                             *)
(***************************************************************************)
\* The integer count of units of a finite scalar.
Val(a) == a[2]
\* 2^l in units, as an integer.
Units(l) == 2^(l + FracBits)
\* Bit i-1 of the low three bits of an octant, the axes numbered from 1.
OctantBit(o, i) == ((o % 8) \div (2^(i - 1))) % 2 = 1

\* The two ends of the region's extent on axis i, center -/+ 2^level, exactly.
LowerVal(i) == Val(center[i]) - Units(level)
UpperVal(i) == Val(center[i]) + Units(level)

Rejected == ~CenteredDiscretize(level, center, point, "none").some
StartRejected ==
  ~CenteredDiscretize(start.level, start.center, point, "none").some
\* A region near the origin: every sum the operations form is exact.
NearStart == start.center \in NearCenters

C2_ExpandLocNoneIffWithin ==
  res.op = "expand_loc" =>
    /\ res.out = None \/ res.out.some
    /\ (res.out = None) <=>
         \A i \in Axes : /\ LowerVal(i) <= Val(point[i])
                         /\ Val(point[i]) < UpperVal(i)

\* The same, for the regions in which every sum is exact.
ExpandLocNoneIffWithinWhereExact == NearStart => C2_ExpandLocNoneIffWithin

\* C3: when expand_loc(point) is Some(o), o is in 0..7 and bit i of o is 1
\* if the point is below center - radius on axis i, 0 if it is at or above
\* center + radius, and on an axis within the region 1 if the point is below
\* the center and 0 if it is at or above it.
C3_OctantBits ==
  (res.op = "expand_loc" /\ res.out.some) =>
    /\ res.out.val \in 0..7
    /\ \A i \in Axes :
         OctantBit(res.out.val, i) <=>
           IF Val(point[i]) < LowerVal(i) THEN TRUE
           ELSE IF Val(point[i]) >= UpperVal(i) THEN FALSE
           ELSE Val(point[i]) < Val(center[i])

C3_Witness ==
  /\ res.op = "expand_loc"
  /\ res.out.some
  /\ \E i \in Axes : Val(point[i]) < LowerVal(i)
  /\ \E i \in Axes : Val(point[i]) >= UpperVal(i)
  /\ \E i \in Axes : Val(point[i]) = Val(center[i])

\* C4: expand(octant) is one growth step: the level grows by one, and on each
\* axis the center moves by -2^(old level) if the bit of the axis is set in
\* the octant and by +2^(old level) if it is clear; the bits of the octant
\* above bit 2 change nothing.
C4_ExpandOneStep ==
  res.op = "expand" =>
    /\ level = res.old_level + 1
    /\ \A i \in Axes :
         Val(center[i]) =
           Val(res.old_center[i])
             + (IF OctantBit(res.octant, i)
                THEN 0 - Units(res.old_level) ELSE Units(res.old_level))

\* The same, for the regions in which every sum is exact.
ExpandOneStepWhereExact == NearStart => C4_ExpandOneStep

\* The largest distance, over the axes, between the point and the center the
\* region was constructed with, in units.
StartDist ==
  LET d(i) == Val(point[i]) - Val(start.center[i])
      a(i) == IF d(i) < 0 THEN 0 - d(i) ELSE d(i)
  IN CHOOSE m \in {a(i) : i \in Axes} : \A i \in Axes : a(i) <= m

\* ceil(log2(StartDist / 2^(start level))), for a distance above the bound.
StepBound ==
  CHOOSE k \in 0..20 :
    /\ 2^k * Units(start.level) >= StartDist
    /\ k > 0 => 2^(k - 1) * Units(start.level) < StartDist

LoopConverges ==
  /\ nexp <= StepBound
  /\ Rejected => /\ ExpandLoc(level, center, point).some
                 /\ nexp < StepBound
                 /\ nexp < MaxExpands

\* C5: from a region that rejects the point, the loop "expand(expand_loc(p))
\* while discretize(p) is None" can always take its next step, and discretize
\* accepts the point after at most ceil(log2(D / 2^L0)) expansions.
C5_LoopConverges == (proto /\ StartRejected) => LoopConverges

\* The same, for the regions in which every sum is exact.
LoopConvergesWhereExact == (proto /\ StartRejected /\ NearStart) => LoopConverges

LoopRanToBound ==
  /\ proto /\ StartRejected /\ NearStart
  /\ nexp = StepBound
  /\ nexp >= 2
  /\ ~Rejected

\* C6: every sum the tuple folder produces, for a leaf or for a node folded
\* bottom-up, is the tuple of the sums its member folders produce when each
\* is run alone over the same subtree.
C6_CompositeIsTupleOfMembers ==
  \A n \in 1..Len(stack) : stack[n].comp = stack[n].alone

C6_Witness ==
  /\ folded = FoldMax
  /\ Len(stack) = 1
  /\ Len(folders) = 3
  /\ stack[1].comp = <<<<1, 2, 3, 4, 5, 6, 7, 8>>, "unit", 8>>

\* C7: from every i32 level, the level changes only by +1 and only in an
\* expand call (it never decreases, wraps or resets), and an expand call
\* always goes through.
C7_LevelOnlyGrows ==
  [][/\ level' # level =>
          (res'.op = "expand" /\ level' > level /\ level' - 1 = level)
     /\ res'.op = "expand" => ~panicked']_vars

\* C8: for every point LeveledRegion(level).discretize accepts, the value
\* handed to the Morton codec on each axis, (coordinate + bound) / (2 * bound),
\* lies in [0, 1).
C8_NormalizedInUnit ==
  (res.op = "leveled_discretize" /\ res.out.some) =>
    \A i \in Axes :
      /\ Val(res.out.val[i].num) >= 0
      /\ Val(res.out.val[i].num) < Val(res.out.val[i].den)

\* C9: after expand(o), o in 0..7, the new cube contains the old cube and the
\* old cube is the child octant o of the new one: on each axis its upper half
\* if the bit of the axis is set in o, its lower half if it is clear.
C9_OldCubeIsChildOctant ==
  (res.op = "expand" /\ res.octant \in 0..7) =>
    \A i \in Axes :
      LET oldLo == Val(res.old_center[i]) - Units(res.old_level)
          oldHi == Val(res.old_center[i]) + Units(res.old_level)
          newLo == Val(center[i]) - Units(level)
          newHi == Val(center[i]) + Units(level)
      IN /\ newLo <= oldLo
         /\ oldHi <= newHi
         /\ IF OctantBit(res.octant, i)
            THEN oldLo = Val(center[i]) /\ oldHi = newHi
            ELSE oldLo = newLo /\ oldHi = Val(center[i])

\* The same, for the regions in which every sum is exact.
OldCubeIsChildOctantWhereExact == NearStart => C9_OldCubeIsChildOctant

\* C10: in every state and for every point, a point that discretize rejects
\* gets an octant from expand_loc, and a point for which expand_loc is None
\* is accepted by discretize.
C10_RejectedHasOctant ==
  /\ Rejected => ExpandLoc(level, center, point).some
  /\ ExpandLoc(level, center, point) = None => ~Rejected

\* The same, for the regions in which every sum is exact.
RejectedHasOctantWhereExact == NearStart => C10_RejectedHasOctant

====
